---------------------------- MODULE Spec2Model ----------------------------
(***************************************************************************)
(* Velocity estimators of velocity.py: foaw (end-fit and best-fit          *)
(* first-order adaptive windowing), median_filter and levant (sliding-mode *)
(* differentiator integrated with Euler, RK2 or RK4).                      *)
(*                                                                         *)
(* One behaviour of the model is one call of one estimator: Init draws the *)
(* arguments, the actions are the statements of the function.              *)
(*                                                                         *)
(* Numbers.  The program computes in IEEE-754 binary floating point with   *)
(* round-to-nearest-even.  A number is modelled as <<m, e>>, the value     *)
(* m * 2^e with m odd (or <<0, 0>> for zero), and every arithmetic         *)
(* operation rounds its exact result to a significand of MantBits bits     *)
(* exactly as the hardware does to 53 bits.  The exponent is unbounded     *)
(* (no overflow or underflow), zero is unsigned, and NaN is one value that *)
(* every operation propagates.                                             *)
(***************************************************************************)
EXTENDS Integers, Sequences, FiniteSets, TLC

\* Width of the significand kept by every operation (53 in the program).
MantBits == 8

---------------------------------------------------------------------------
(* Floating point *)

NaN == <<0, 1>>
Zero == <<0, 0>>
None == << >>

IsNaN(a) == a = NaN

AbsInt(z) == IF z < 0 THEN -z ELSE z

Max2(a, b) == IF a >= b THEN a ELSE b

Min2(a, b) == IF a <= b THEN a ELSE b

RECURSIVE BitLen(_)
BitLen(z) == IF z = 0 THEN 0 ELSE 1 + BitLen(z \div 2)

\* The operands of an operation are values: the interpreter evaluates each
\* operand once, before the operation.  Value(S) is the element of the
\* singleton S; an operation op(a0, b0) is Value({body(a, b) : a \in {a0},
\* b \in {b0}}), its body computed on the operands' values.
Value(S) == CHOOSE v \in S : TRUE

\* m * 2^e with the trailing zero bits of m moved into the exponent.
RECURSIVE Normal(_, _)
Normal(m, e) ==
    IF m = 0 THEN Zero
    ELSE IF m % 2 = 0 THEN Normal(m \div 2, e + 1)
    ELSE <<m, e>>

Norm(m0, e0) == Value({Normal(m, e) : m \in {m0}, e \in {e0}})

\* The integer m * 2^e rounded to MantBits significant bits, ties to even.
Nearest(m, e) ==
    LET a == AbsInt(m)
        len == BitLen(a)
        sh == len - MantBits
        q == a \div (2 ^ sh)
        r == a % (2 ^ sh)
        half == 2 ^ (sh - 1)
        up == IF r > half \/ (r = half /\ q % 2 = 1) THEN q + 1 ELSE q
    IN  IF len <= MantBits THEN Norm(m, e)
        ELSE Norm((IF m < 0 THEN -1 ELSE 1) * up, e + sh)

Round(m0, e0) == Value({Nearest(m, e) : m \in {m0}, e \in {e0}})

\* float(z) for a Python int z
FInt(z) == Round(z, 0)

\* position of the bit above the leading bit of a
Top(a) == a[2] + BitLen(AbsInt(a[1]))

Neg(a) == IF IsNaN(a) THEN NaN ELSE <<-a[1], a[2]>>

FNeg(a0) == Value({Neg(a) : a \in {a0}})

Abs(a) == IF IsNaN(a) THEN NaN ELSE <<AbsInt(a[1]), a[2]>>

FAbs(a0) == Value({Abs(a) : a \in {a0}})

\* a + b
Add(a, b) ==
    IF IsNaN(a) \/ IsNaN(b) THEN NaN
    ELSE IF a[1] = 0 THEN b
    ELSE IF b[1] = 0 THEN a
    ELSE IF Top(b) <= Top(a) - MantBits - 2 THEN a
    ELSE IF Top(a) <= Top(b) - MantBits - 2 THEN b
    ELSE LET e == Min2(a[2], b[2])
         IN  Round(a[1] * 2 ^ (a[2] - e) + b[1] * 2 ^ (b[2] - e), e)

FAdd(a0, b0) == Value({Add(a, b) : a \in {a0}, b \in {b0}})

\* a - b
FSub(a, b) == FAdd(a, FNeg(b))

\* a * b
Mul(a, b) ==
    IF IsNaN(a) \/ IsNaN(b) THEN NaN
    ELSE Round(a[1] * b[1], a[2] + b[2])

FMul(a0, b0) == Value({Mul(a, b) : a \in {a0}, b \in {b0}})

\* a / b for b # 0 (the quotient with a sticky bit, then rounded)
Div(a, b) ==
    IF IsNaN(a) \/ IsNaN(b) \/ b[1] = 0 THEN NaN
    ELSE IF a[1] = 0 THEN Zero
    ELSE LET A == AbsInt(a[1])
             B == AbsInt(b[1])
             sh == Max2(0, MantBits + 1 + BitLen(B) - BitLen(A))
             q == (A * 2 ^ sh) \div B
             r == (A * 2 ^ sh) % B
             s == IF (a[1] < 0) = (b[1] < 0) THEN 1 ELSE -1
         IN  Round(s * (2 * q + (IF r = 0 THEN 0 ELSE 1)), a[2] - b[2] - sh - 1)

FDiv(a0, b0) == Value({Div(a, b) : a \in {a0}, b \in {b0}})

\* floor of the square root of z, one bit at a time from bit b down
RECURSIVE ISqrtBits(_, _, _)
ISqrtBits(z, acc, b) ==
    IF b < 0 THEN acc
    ELSE LET t == acc + 2 ^ b
         IN  IF t * t <= z THEN ISqrtBits(z, t, b - 1) ELSE ISqrtBits(z, acc, b - 1)

ISqrt(z) == ISqrtBits(z, 0, MantBits + 2)

\* numpy sqrt: NaN for a negative argument
SqrtOf(a) ==
    IF IsNaN(a) \/ a[1] < 0 THEN NaN
    ELSE IF a[1] = 0 THEN Zero
    ELSE LET sh0 == Max2(0, 2 * MantBits + 2 - BitLen(a[1]))
             sh == IF (a[2] - sh0) % 2 = 0 THEN sh0 ELSE sh0 + 1
             M == a[1] * 2 ^ sh
             r == ISqrt(M)
         IN  Round(2 * r + (IF r * r = M THEN 0 ELSE 1), ((a[2] - sh) \div 2) - 1)

Sqrt(a0) == Value({SqrtOf(a) : a \in {a0}})

\* numpy sign: -1, 0 or 1 (NaN for NaN)
SignOf(a) ==
    IF IsNaN(a) THEN NaN
    ELSE IF a[1] > 0 THEN FInt(1)
    ELSE IF a[1] < 0 THEN FInt(-1)
    ELSE Zero

\* A plausible defect of sign: e / abs(e), which is 0/0 at e = 0.
SignByDivision(a0) == FDiv(a0, FAbs(a0))

Sign(a0) == Value({SignOf(a) : a \in {a0}})

\* a < b; every comparison with NaN is false
Less(a, b) ==
    IF IsNaN(a) \/ IsNaN(b) THEN FALSE
    ELSE IF a[1] = 0 THEN b[1] > 0
    ELSE IF b[1] = 0 THEN a[1] < 0
    ELSE IF (a[1] < 0) # (b[1] < 0) THEN a[1] < 0
    ELSE IF Top(a) # Top(b) THEN (IF a[1] < 0 THEN Top(a) > Top(b) ELSE Top(a) < Top(b))
    ELSE LET e == Min2(a[2], b[2])
         IN  a[1] * 2 ^ (a[2] - e) < b[1] * 2 ^ (b[2] - e)

FLt(a0, b0) == Value({Less(a, b) : a \in {a0}, b \in {b0}})

\* a > b
FGt(a, b) == FLt(b, a)

---------------------------------------------------------------------------
(* Python helpers *)

\* range(a, b)
Range(a, b) == a .. (b - 1)

\* Is s[idx] a valid subscript (no IndexError)?
InRange(s, idx) == -Len(s) <= idx /\ idx < Len(s)

\* s[idx]: a negative subscript counts from the end of the sequence
PyAt(s, idx) == s[IF idx < 0 THEN Len(s) + idx + 1 ELSE idx + 1]

\* A plausible defect of line 29 / 89 / 137: an array with no element for k = 0.
ZerosFromOne(len) == [j \in 1 .. len - 1 |-> Zero]

\* zeros(len)
Zeros(len) == [j \in 1 .. len |-> Zero]

---------------------------------------------------------------------------
(* State: the arguments and the local variables of the running call *)

VARIABLES
    fn,         \* the function called: "foaw", "median_filter" or "levant"
    pos, sr, noise_max, n, best,   \* arguments of foaw (pos, n also of median_filter)
    C, alpha, Lambda, rk,          \* arguments of levant (alpha, Lambda: None or a number)
    T,          \* 1/sr
    result,     \* the output array
    k,          \* index of the outer loop
    i,          \* foaw: index of the window loop
    velocity,   \* foaw: last accepted slope
    x, u1,      \* levant: observer state
    pc          \* "call", "loop", "window", "emit", "returned", "raised"

args == <<fn, pos, sr, noise_max, n, best, C, rk>>

vars == <<fn, pos, sr, noise_max, n, best, C, alpha, Lambda, rk, T, result, k, i,
          velocity, x, u1, pc>>

---------------------------------------------------------------------------
(* foaw *)

\* A plausible defect of line 41: the difference divided by T, not by i*T.
EndFitPerSample(p, kk, ii, TT) ==
    FDiv(FSub(PyAt(p, kk), PyAt(p, kk - ii)), TT)

\* end-fit slope: (pos[k]-pos[k-i]) / (i*T)
EndFit(p, kk, ii, TT) ==
    FDiv(FSub(PyAt(p, kk), PyAt(p, kk - ii)), FMul(FInt(ii), TT))

\* sum([pos[k-j] for j in range(upto+1)])
RECURSIVE SumPos(_, _, _)
SumPos(p, kk, upto) ==
    IF upto < 0 THEN Zero ELSE FAdd(SumPos(p, kk, upto - 1), PyAt(p, kk - upto))

\* sum([pos[k-j]*j for j in range(upto+1)])
RECURSIVE SumPosJ(_, _, _)
SumPosJ(p, kk, upto) ==
    IF upto < 0 THEN Zero
    ELSE FAdd(SumPosJ(p, kk, upto - 1), FMul(PyAt(p, kk - upto), FInt(upto)))

\* best-fit slope: (i*sum(pos[k-j]) - 2*sum(pos[k-j]*j)) / (T*i*(i+1)*(i+2)/6)
BestFit(p, kk, ii, TT) ==
    FDiv(FSub(FMul(FInt(ii), SumPos(p, kk, ii)), FMul(FInt(2), SumPosJ(p, kk, ii))),
         FDiv(FMul(FMul(FMul(TT, FInt(ii)), FInt(ii + 1)), FInt(ii + 2)), FInt(6)))

Slope(bst, p, kk, ii, TT) == IF bst THEN BestFit(p, kk, ii, TT) ELSE EndFit(p, kk, ii, TT)

\* ykj = pos[k]-(b*j*T)
Ykj(p, kk, j, b, TT) == FSub(PyAt(p, kk), FMul(FMul(b, FInt(j)), TT))

\* A plausible defect of line 50: only the upper margin is tested.
OutsideAbove(p, kk, j, b, TT, nm) ==
    FGt(Ykj(p, kk, j, b, TT), FAdd(PyAt(p, kk - j), nm))

\* ykj < (pos[k-j]-noise_max) or ykj > (pos[k-j]+noise_max)
OutsideAt(p, kk, j, b, TT, nm) ==
    \/ FLt(Ykj(p, kk, j, b, TT), FSub(PyAt(p, kk - j), nm))
    \/ FGt(Ykj(p, kk, j, b, TT), FAdd(PyAt(p, kk - j), nm))

\* for j in range(1,i): the first j that is outside (the loop breaks there), 0 if none
RECURSIVE FirstOutside(_, _, _, _, _, _, _)
FirstOutside(p, kk, ii, j, b, TT, nm) ==
    IF j >= ii THEN 0
    ELSE IF OutsideAt(p, kk, j, b, TT, nm) THEN j
    ELSE FirstOutside(p, kk, ii, j + 1, b, TT, nm)

\* Plausible defects of line 32: range(1, min(n,k)+1) and range(1, n).
FoawRangeInclusive(nn, kk) == Min2(nn, kk) + 1

FoawRangeN(nn, kk) == nn

\* the upper end of the window loop: for i in range(1, min(n,k))
FoawRange(nn, kk) == Min2(nn, kk)

\* the subscripts of pos evaluated by iteration ii of the window loop at step kk:
\* those of the slope, then pos[k] and pos[k-j] of the validation up to its break
SlopeReads(bst, kk, ii) == IF bst THEN {kk - j : j \in 0 .. ii} ELSE {kk, kk - ii}

CheckReads(kk, ii, stop) ==
    IF ii <= 1 THEN {}
    ELSE {kk} \cup {kk - j : j \in 1 .. (IF stop = 0 THEN ii - 1 ELSE stop)}

\* foaw, lines 28-29: T = 1/sr raises ZeroDivisionError for sr = 0
FoawEnter ==
    /\ pc = "call" /\ fn = "foaw"
    /\ IF sr = Zero
       THEN pc' = "raised" /\ UNCHANGED <<T, result, k>>
       ELSE /\ T' = FDiv(FInt(1), sr)
            /\ result' = Zeros(Len(pos))
            /\ k' = 0
            /\ pc' = "loop"
    /\ UNCHANGED <<args, alpha, Lambda, i, velocity, x, u1>>

\* lines 30-32: the next k; velocity = 0; the window loop starts at i = 1
FoawStep ==
    /\ pc = "loop" /\ fn = "foaw" /\ k < Len(pos)
    /\ velocity' = Zero
    /\ i' = 1
    /\ pc' = "window"
    /\ UNCHANGED <<args, alpha, Lambda, T, result, k, x, u1>>

\* A plausible defect of lines 53-54: velocity = b before the test of outside.
FoawWindowAssignFirst ==
    /\ pc = "window" /\ i \in Range(1, FoawRange(n, k))
    /\ IF \E idx \in SlopeReads(best, k, i) : ~InRange(pos, idx)
       THEN pc' = "raised" /\ UNCHANGED <<i, velocity>>
       ELSE LET b == Slope(best, pos, k, i, T)
                outside == FirstOutside(pos, k, i, 1, b, T, noise_max) # 0
            IN  IF outside
                THEN velocity' = b /\ pc' = "emit" /\ UNCHANGED i
                ELSE velocity' = b /\ i' = i + 1 /\ pc' = "window"
    /\ UNCHANGED <<args, alpha, Lambda, T, result, k, x, u1>>

\* A plausible defect of line 53: continue instead of break.
FoawWindowContinue ==
    /\ pc = "window" /\ i \in Range(1, FoawRange(n, k))
    /\ IF \E idx \in SlopeReads(best, k, i) : ~InRange(pos, idx)
       THEN pc' = "raised" /\ UNCHANGED <<i, velocity>>
       ELSE LET b == Slope(best, pos, k, i, T)
                outside == FirstOutside(pos, k, i, 1, b, T, noise_max) # 0
            IN  IF outside
                THEN i' = i + 1 /\ pc' = "window" /\ UNCHANGED velocity
                ELSE velocity' = b /\ i' = i + 1 /\ pc' = "window"
    /\ UNCHANGED <<args, alpha, Lambda, T, result, k, x, u1>>

\* lines 32-54: one iteration of the window loop
FoawWindow ==
    /\ pc = "window" /\ i \in Range(1, FoawRange(n, k))
    /\ IF \E idx \in SlopeReads(best, k, i) : ~InRange(pos, idx)
       THEN pc' = "raised" /\ UNCHANGED <<i, velocity>>
       ELSE LET b == Slope(best, pos, k, i, T)
                outside == FirstOutside(pos, k, i, 1, b, T, noise_max) # 0
            IN  IF outside
                THEN pc' = "emit" /\ UNCHANGED <<i, velocity>>
                ELSE velocity' = b /\ i' = i + 1 /\ pc' = "window"
    /\ UNCHANGED <<args, alpha, Lambda, T, result, k, x, u1>>

\* line 56: result[k] = velocity, after the window loop ended or broke
FoawEmit ==
    /\ \/ pc = "emit"
       \/ pc = "window" /\ i \notin Range(1, FoawRange(n, k))
    /\ result' = [result EXCEPT ![k + 1] = velocity]
    /\ k' = k + 1
    /\ pc' = "loop"
    /\ UNCHANGED <<args, alpha, Lambda, T, i, velocity, x, u1>>

\* line 58
FoawReturn ==
    /\ pc = "loop" /\ fn = "foaw" /\ k = Len(pos)
    /\ pc' = "returned"
    /\ UNCHANGED <<args, alpha, Lambda, T, result, k, i, velocity, x, u1>>

---------------------------------------------------------------------------
(* median_filter *)

\* s[a:b] for 0 <= a <= b <= len(s)
Slice(s, a, b) == [j \in 1 .. (b - a) |-> s[a + j]]

\* s with v inserted before the first element greater than v (s sorted)
RECURSIVE Insert(_, _)
Insert(s, v) ==
    IF s = << >> THEN <<v>>
    ELSE IF FLt(v, Head(s)) THEN <<v>> \o s
    ELSE <<Head(s)>> \o Insert(Tail(s), v)

RECURSIVE Sorted(_)
Sorted(s) == IF s = << >> THEN << >> ELSE Insert(Sorted(Tail(s)), Head(s))

\* numpy median: the middle element of the sorted window, or the mean of the two
\* middle elements; NaN for an empty window
Median(s) ==
    LET t == Sorted(s)
        h == Len(s) \div 2
    IN  IF Len(s) = 0 THEN NaN
        ELSE IF Len(s) % 2 = 1 THEN t[h + 1]
        ELSE FDiv(FAdd(t[h], t[h + 1]), FInt(2))

\* line 89; the loop of line 90 starts at k = 1
MedianEnter ==
    /\ pc = "call" /\ fn = "median_filter"
    /\ result' = Zeros(Len(pos))
    /\ k' = 1
    /\ pc' = "loop"
    /\ UNCHANGED <<args, alpha, Lambda, T, i, velocity, x, u1>>

\* line 91: result[k] = median(pos[max(k-n,0):k])
MedianStep ==
    /\ pc = "loop" /\ fn = "median_filter" /\ k < Len(pos)
    /\ result' = [result EXCEPT ![k + 1] = Median(Slice(pos, Max2(k - n, 0), k))]
    /\ k' = k + 1
    /\ UNCHANGED <<args, alpha, Lambda, T, i, velocity, x, u1, pc>>

\* line 92
MedianReturn ==
    /\ pc = "loop" /\ fn = "median_filter" /\ k >= Len(pos)
    /\ pc' = "returned"
    /\ UNCHANGED <<args, alpha, Lambda, T, result, k, i, velocity, x, u1>>

---------------------------------------------------------------------------
(* levant *)

\* f(alpha,Lambda,p,u1,x): <<du1/dt, dx/dt>>
f(al, La, p, u1v, xv) ==
    LET e == FSub(xv, p)
    IN  <<FMul(FNeg(al), Sign(e)),
          FSub(u1v, FMul(FMul(La, Sqrt(FAbs(e))), Sign(e)))>>

\* a call of f: the arguments are evaluated, then the body
F(al0, La0, p0, u10, x0) ==
    Value({f(al, La, p, u1v, xv) : al \in {al0}, La \in {La0}, p \in {p0},
                                   u1v \in {u10}, xv \in {x0}})

\* lines 166-169: one Euler step; the new u1, the new x and the output
RK1(al, La, TT, p, u1v, xv) ==
    LET k1 == F(al, La, p, u1v, xv)
    IN  [u1 |-> FAdd(u1v, FMul(k1[1], TT)),
         x |-> FAdd(xv, FMul(k1[2], TT)),
         u |-> k1[2]]

\* lines 157-160: the two stages of the midpoint step
RK2Stage1(al, La, TT, p, u1v, xv) == F(al, La, p, u1v, xv)

RK2Stage2(al, La, TT, p, u1v, xv) ==
    LET k1 == RK2Stage1(al, La, TT, p, u1v, xv)
        tu1 == FAdd(u1v, FMul(k1[1], FDiv(TT, FInt(2))))
        tx == FAdd(xv, FMul(k1[2], FDiv(TT, FInt(2))))
    IN  F(al, La, p, tu1, tx)

\* lines 157-163
RK2(al, La, TT, p, u1v, xv) ==
    LET k2 == RK2Stage2(al, La, TT, p, u1v, xv)
    IN  [u1 |-> FAdd(u1v, FMul(k2[1], TT)),
         x |-> FAdd(xv, FMul(k2[2], TT)),
         u |-> k2[2]]

\* lines 147-150: the four stages of the Runge-Kutta step
RK4Stage1(al, La, TT, p, u1v, xv) == F(al, La, p, u1v, xv)

RK4Stage2(al, La, TT, p, u1v, xv) ==
    LET k1 == RK4Stage1(al, La, TT, p, u1v, xv)
    IN  F(al, La, p, FAdd(u1v, FMul(FDiv(TT, FInt(2)), k1[1])),
          FAdd(xv, FMul(FDiv(TT, FInt(2)), k1[2])))

RK4Stage3(al, La, TT, p, u1v, xv) ==
    LET k2 == RK4Stage2(al, La, TT, p, u1v, xv)
    IN  F(al, La, p, FAdd(u1v, FMul(FDiv(TT, FInt(2)), k2[1])),
          FAdd(xv, FMul(FDiv(TT, FInt(2)), k2[2])))

RK4Stage4(al, La, TT, p, u1v, xv) ==
    LET k3 == RK4Stage3(al, La, TT, p, u1v, xv)
    IN  F(al, La, p, FAdd(u1v, FMul(TT, k3[1])), FAdd(xv, FMul(TT, k3[2])))

\* k1 + 2*k2 + 2*k3 + k4
Weighted(a, b, c, d) ==
    FAdd(FAdd(FAdd(a, FMul(FInt(2), b)), FMul(FInt(2), c)), d)

\* A plausible defect of lines 152-154: the output is f evaluated again at the
\* new state, not the combination of the stages.
RK4Reevaluated(al, La, TT, p, u1v, xv) ==
    LET k1 == RK4Stage1(al, La, TT, p, u1v, xv)
        k2 == RK4Stage2(al, La, TT, p, u1v, xv)
        k3 == RK4Stage3(al, La, TT, p, u1v, xv)
        k4 == RK4Stage4(al, La, TT, p, u1v, xv)
        u == FMul(FDiv(FInt(1), FInt(6)), Weighted(k1[2], k2[2], k3[2], k4[2]))
        nu1 == FAdd(u1v, FMul(FDiv(TT, FInt(6)), Weighted(k1[1], k2[1], k3[1], k4[1])))
        nx == FAdd(xv, FMul(u, TT))
    IN  [u1 |-> nu1, x |-> nx, u |-> F(al, La, p, nu1, nx)[2]]

\* lines 147-154
RK4(al, La, TT, p, u1v, xv) ==
    LET k1 == RK4Stage1(al, La, TT, p, u1v, xv)
        k2 == RK4Stage2(al, La, TT, p, u1v, xv)
        k3 == RK4Stage3(al, La, TT, p, u1v, xv)
        k4 == RK4Stage4(al, La, TT, p, u1v, xv)
        u == FMul(FDiv(FInt(1), FInt(6)), Weighted(k1[2], k2[2], k3[2], k4[2]))
    IN  [u1 |-> FAdd(u1v, FMul(FDiv(TT, FInt(6)), Weighted(k1[1], k2[1], k3[1], k4[1]))),
         x |-> FAdd(xv, FMul(u, TT)),
         u |-> u]

\* lines 136-144: T = 1/sr raises ZeroDivisionError for sr = 0;
\* alpha = 1.1*C and Lambda = sqrt(C) unless given
LevantEnter ==
    /\ pc = "call" /\ fn = "levant"
    /\ IF sr = Zero
       THEN pc' = "raised" /\ UNCHANGED <<T, result, k, alpha, Lambda, x, u1>>
       ELSE /\ T' = FDiv(FInt(1), sr)
            /\ result' = Zeros(Len(pos))
            /\ alpha' = IF alpha = None THEN FMul(FDiv(FInt(11), FInt(10)), C) ELSE alpha
            /\ Lambda' = IF Lambda = None THEN Sqrt(C) ELSE Lambda
            /\ x' = Zero
            /\ u1' = Zero
            /\ k' = 0
            /\ pc' = "loop"
    /\ UNCHANGED <<args, i, velocity>>

\* the body of one of the three loops: the state advances, result[k] = output
LevantBody(s0) ==
    \E s \in {s0} :
        /\ u1' = s.u1
        /\ x' = s.x
        /\ result' = [result EXCEPT ![k + 1] = s.u]
        /\ UNCHANGED <<args, alpha, Lambda, T, i, velocity, pc>>

\* lines 145-154
LevantRK4 ==
    /\ pc = "loop" /\ fn = "levant" /\ rk = 4 /\ k < Len(pos)
    /\ LevantBody(RK4(alpha, Lambda, T, PyAt(pos, k), u1, x))
    /\ k' = k + 1

\* lines 155-163
LevantRK2 ==
    /\ pc = "loop" /\ fn = "levant" /\ rk = 2 /\ k < Len(pos)
    /\ LevantBody(RK2(alpha, Lambda, T, PyAt(pos, k), u1, x))
    /\ k' = k + 1

\* lines 164-169
LevantRK1 ==
    /\ pc = "loop" /\ fn = "levant" /\ rk = 1 /\ k < Len(pos)
    /\ LevantBody(RK1(alpha, Lambda, T, PyAt(pos, k), u1, x))
    /\ k' = k + 1

\* line 170: after the loop, or at once when rk is none of 4, 2, 1
LevantReturn ==
    /\ pc = "loop" /\ fn = "levant"
    /\ k = Len(pos) \/ rk \notin {1, 2, 4}
    /\ pc' = "returned"
    /\ UNCHANGED <<args, alpha, Lambda, T, result, k, i, velocity, x, u1>>

\* The loop of levant on an input that never ends and is constant, pos[k] = pos[0]
\* for every k: the loop reads nothing but pos[k] and the state (x, u1), and never
\* reads result back, so the index stays at 0 and result holds the last output.
LevantStream ==
    /\ pc = "loop" /\ fn = "levant" /\ rk \in {1, 2, 4} /\ Len(pos) = 1
    /\ LevantBody(CASE rk = 4 -> RK4(alpha, Lambda, T, PyAt(pos, k), u1, x)
                    [] rk = 2 -> RK2(alpha, Lambda, T, PyAt(pos, k), u1, x)
                    [] rk = 1 -> RK1(alpha, Lambda, T, PyAt(pos, k), u1, x))
    /\ k' = k

---------------------------------------------------------------------------
(* The calls *)

\* bounds of the inputs
MaxLen == 4
RampLen == 6
TriLen == 13

Half == FDiv(FInt(1), FInt(2))

RECURSIVE SeqsUpTo(_, _)
SeqsUpTo(S, len) ==
    IF len = 0 THEN {<< >>}
    ELSE LET shorter == SeqsUpTo(S, len - 1)
         IN  shorter \cup {Append(s, v) : s \in {t \in shorter : Len(t) = len - 1}, v \in S}

PosVals == {FInt(0), FInt(1), FInt(2)}

\* pos[k] = v*k*T for k in range(len), computed in floating point
Ramp(v, TT, len) == [j \in 1 .. len |-> FMul(FMul(v, FInt(j - 1)), TT)]

\* the ramp with pos[m] = v*m*T + d
Perturbed(v, TT, len, m, d) ==
    [j \in 1 .. len |-> IF j = m + 1 THEN FAdd(FMul(FMul(v, FInt(m)), TT), d)
                        ELSE FMul(FMul(v, FInt(j - 1)), TT)]

\* 0,1,2,3,2,1,0,1,...
Triangle(len) ==
    [j \in 1 .. len |-> FInt(IF (j - 1) % 6 <= 3 THEN (j - 1) % 6 ELSE 6 - ((j - 1) % 6))]

Call(name, p, s, nm, nn, b, c, r) ==
    [fn |-> name, pos |-> p, sr |-> s, noise_max |-> nm, n |-> nn, best |-> b, C |-> c,
     alpha |-> None, Lambda |-> None, rk |-> r]

FoawCall(p, s, nm, nn, b) == Call("foaw", p, s, nm, nn, b, Zero, 0)

RampV == {FInt(1), FInt(2), FInt(3)}

PerturbV == {FInt(0), FInt(1)}

PerturbD == {FInt(-2), FInt(-1), Half, FInt(1), FInt(2)}

FoawCalls ==
    \* short sequences
    {FoawCall(p, s, nm, nn, b) :
        p \in SeqsUpTo(PosVals, MaxLen), s \in {FInt(1), FInt(3)},
        nm \in {Zero, FInt(1)}, nn \in {1, 2, 16}, b \in BOOLEAN}
    \* parameters outside their domain
    \cup {FoawCall(p, s, nm, 16, FALSE) :
        p \in {<<FInt(0), FInt(1), FInt(2)>>},
        s \in {Zero, FInt(-1), FInt(1)}, nm \in {FInt(-1), Zero}}
    \* a window that passes after a rejected one
    \cup {FoawCall(<<FInt(0), FInt(0), FInt(2), FInt(1), FInt(3)>>, FInt(1), FInt(1), 16, b) :
        b \in BOOLEAN}
    \* linear ramps
    \cup {FoawCall(Ramp(v, FDiv(FInt(1), s), RampLen), s, nm, nn, FALSE) :
        v \in RampV, s \in {FInt(1), FInt(2), FInt(3), FInt(10)},
        nm \in {Zero, Half}, nn \in {1, 2, 16}}
    \* ramps with one perturbed sample
    \cup {FoawCall(Perturbed(v, FDiv(FInt(1), s), RampLen, m, d), s, nm, nn, FALSE) :
        v \in PerturbV, s \in {FInt(1), FInt(2)}, m \in 0 .. RampLen - 1,
        d \in PerturbD, nm \in {Zero, Half, FInt(1)}, nn \in {2, 3, 16}}
    \* the triangle wave
    \cup {FoawCall(Triangle(TriLen), FInt(100), FDiv(FInt(5), FInt(100)), 16, FALSE)}

MedianCalls ==
    {Call("median_filter", p, Zero, Zero, nn, FALSE, Zero, 0) :
        p \in SeqsUpTo(PosVals, MaxLen), nn \in {1, 2, 5}}

LevantCall(p, s, c, r) == Call("levant", p, s, Zero, 0, FALSE, c, r)

LevantCalls ==
    {LevantCall(p, s, c, r) :
        p \in SeqsUpTo(PosVals, MaxLen), s \in {FInt(1), FInt(2)},
        c \in {FInt(1), FInt(2)}, r \in {1, 2, 4}}
    \* parameters outside their domain
    \cup {LevantCall(p, s, c, r) :
        p \in {<<FInt(1), FInt(1), FInt(1)>>}, s \in {Zero, FInt(-1), FInt(1)},
        c \in {FInt(-1), Zero, FInt(1)}, r \in {0, 1, 2, 3, 4}}
    \* alpha and Lambda given
    \cup {[LevantCall(p, FInt(1), FInt(1), r) EXCEPT !.alpha = FInt(1), !.Lambda = FInt(1)] :
        p \in {<<FInt(1), FInt(1), FInt(1)>>}, r \in {1, 2, 4}}

\* constant inputs of unbounded length
StreamCalls ==
    {LevantCall(<<c>>, s, cc, r) :
        c \in PosVals, s \in {FInt(1), FInt(2), FInt(4)},
        cc \in {FInt(1), FInt(2)}, r \in {1, 2, 4}}

Calls == FoawCalls \cup MedianCalls \cup LevantCalls

Start(c) ==
        /\ fn = c.fn /\ pos = c.pos /\ sr = c.sr /\ noise_max = c.noise_max
        /\ n = c.n /\ best = c.best /\ C = c.C /\ alpha = c.alpha
        /\ Lambda = c.Lambda /\ rk = c.rk
        /\ T = Zero /\ result = << >> /\ k = 0 /\ i = 0 /\ velocity = Zero
        /\ x = Zero /\ u1 = Zero /\ pc = "call"

Init == \E c \in Calls : Start(c)

InitStream == \E c \in StreamCalls : Start(c)

Next ==
    \/ FoawEnter
    \/ FoawStep
    \/ FoawWindow
    \/ FoawEmit
    \/ FoawReturn
    \/ MedianEnter
    \/ MedianStep
    \/ MedianReturn
    \/ LevantEnter
    \/ LevantRK4
    \/ LevantRK2
    \/ LevantRK1
    \/ LevantReturn

Spec == Init /\ [][Next]_vars

NextStream ==
    \/ LevantEnter
    \/ LevantStream

\* the loop goes on to the next sample as long as there is one
SpecStream == InitStream /\ [][NextStream]_vars /\ WF_vars(LevantEnter) /\ WF_vars(LevantStream)
---------------------------------------------------------------------------
(* Properties *)

\* a >= b, a > b for numbers
FGe(a, b) == ~IsNaN(a) /\ ~IsNaN(b) /\ ~FLt(a, b)

Running == pc \notin {"call", "raised"}

\* k steps of the outer loop are complete: result[0..k-1] are final
Emitted == 0 .. (k - 1)

\* T is exactly 1/sr (sr is a power of two)
ExactT == T # Zero /\ ~IsNaN(T) /\ Norm(T[1] * sr[1], T[2] + sr[2]) = FInt(1)

\* the number v*kk*T, if it is a number of the arithmetic, else NaN
ExactVkT(v, kk) ==
    IF Norm(v[1] * kk * T[1], v[2] + T[2]) = Round(v[1] * kk * T[1], v[2] + T[2])
    THEN Norm(v[1] * kk * T[1], v[2] + T[2])
    ELSE NaN

\* pos[j] = v*j*T, without rounding, at every index
IsExactRamp(v) == \A j \in 0 .. Len(pos) - 1 : PyAt(pos, j) = ExactVkT(v, j)

\* pos[j] = v*j*T, without rounding, at every index but m, and pos[m] = v*m*T + d
IsExactPerturbed(v, m, d) ==
    /\ m \in 0 .. Len(pos) - 1
    /\ \A j \in 0 .. Len(pos) - 1 :
          /\ ~IsNaN(ExactVkT(v, j))
          /\ PyAt(pos, j) = IF j = m THEN FAdd(ExactVkT(v, j), d) ELSE ExactVkT(v, j)

Slopes == {FInt(z) : z \in 0 .. 3}

\* C1: every estimator returns a sequence with as many elements as pos.
C1_SameLength == pc = "returned" => Len(result) = Len(pos)

C1_Witness ==
    /\ pc = "returned" /\ fn = "median_filter" /\ Len(pos) = MaxLen
    /\ result[MaxLen] = Half

\* C2: a call with sr <= 0, noise_max < 0, C <= 0 or rk outside {1,2,4} never
\* returns a velocity sequence.
ValidParams ==
    /\ fn \in {"foaw", "levant"} => FGt(sr, Zero)
    /\ fn = "foaw" => FGe(noise_max, Zero)
    /\ fn = "levant" => FGt(C, Zero) /\ rk \in {1, 2, 4}

C2_InvalidRejected == pc = "returned" => ValidParams

\* C3 as claimed: end-fit foaw on a linear ramp of slope v, with noise_max >= 0 and
\* n >= 1, rejects no window and emits result[k] = v at every k >= 2.
C3_RampAnyN ==
    \A v \in Slopes :
        (/\ fn = "foaw" /\ ~best /\ Running /\ FGt(sr, Zero) /\ FGe(noise_max, Zero)
         /\ n >= 1 /\ pos = Ramp(v, T, Len(pos)))
        => /\ pc # "emit"
           /\ \A kk \in Emitted : kk >= 2 => result[kk + 1] = v

\* C3 amended: the same for n >= 2 and a ramp on which nothing is rounded (T = 1/sr
\* and every v*k*T are numbers of the arithmetic): no window is rejected, the
\* window loop runs to its cap and result[k] = v at every k >= 2.
C3_ExactRamp ==
    \A v \in Slopes :
        (/\ fn = "foaw" /\ ~best /\ Running /\ FGt(sr, Zero) /\ FGe(noise_max, Zero)
         /\ n >= 2 /\ ExactT /\ IsExactRamp(v))
        => /\ pc # "emit"
           /\ \A kk \in Emitted : kk >= 2 => result[kk + 1] = v

C3_Witness ==
    /\ pc = "returned" /\ fn = "foaw" /\ ~best /\ n = 16 /\ noise_max = Zero
    /\ sr = FInt(2) /\ Len(pos) = RampLen /\ IsExactRamp(FInt(3))
    /\ result[RampLen] = FInt(3)

\* The exactness condition of C3 amended is needed: with n >= 2 and a ramp computed
\* as v*k*T in the arithmetic, rounding alone makes a window fail (sr = 3, sr = 10).
C3_RoundedRamp ==
    \A v \in Slopes :
        (/\ fn = "foaw" /\ ~best /\ Running /\ FGt(sr, Zero) /\ FGe(noise_max, Zero)
         /\ n >= 2 /\ pos = Ramp(v, T, Len(pos)))
        => /\ pc # "emit"
           /\ \A kk \in Emitted : kk >= 2 => result[kk + 1] = v

\* the first step whose candidate windows hold sample m (window i = 1 at step k
\* holds pos[k] and pos[k-1], and there is no window before k = 2)
FirstStepWith(m) == Max2(m, 2)

\* C4 as claimed: on a ramp of slope v with pos[m] moved by d, |d| > noise_max,
\* at the first step whose windows hold sample m the window loop is left by a
\* rejection and the emitted result is v.
C4_PerturbationRejected ==
    (/\ fn = "foaw" /\ ~best /\ Running /\ FGt(sr, Zero) /\ FGe(noise_max, Zero)
     /\ n >= 2 /\ Len(pos) >= 2 /\ PyAt(pos, 0) = Zero)
    => \A v \in Slopes, d \in PerturbD, m \in 1 .. Len(pos) - 1 :
          (FLt(noise_max, FAbs(d)) /\ pos = Perturbed(v, T, Len(pos), m, d))
          => /\ (k = FirstStepWith(m) /\ pc = "window") => i \in Range(1, FoawRange(n, k))
             /\ (pc = "returned" /\ FirstStepWith(m) < Len(pos))
                  => result[FirstStepWith(m) + 1] = v

\* C4 amended: for m >= 2, n >= 2 and |d| > 2*noise_max, on a perturbed ramp on
\* which nothing is rounded, step k = m accepts window 1 (it has no interior
\* sample), rejects window 2 if the cap allows one, and emits the two-point slope
\* through the perturbed sample, result[m] = (pos[m]-pos[m-1])/T = v + d/T, not v.
\* (Samples 0 and 1 are on the ramp since m >= 2: the slope is tried on them first.)
C4_PerturbedEndpoint ==
    (/\ fn = "foaw" /\ ~best /\ Running /\ FGt(sr, Zero) /\ FGe(noise_max, Zero)
     /\ n >= 2 /\ ExactT /\ Len(pos) >= 3 /\ PyAt(pos, 0) = Zero)
    => \A v \in Slopes :
          PyAt(pos, 1) = ExactVkT(v, 1)
          => \A d \in PerturbD, m \in 2 .. Len(pos) - 1 :
                (FLt(FMul(FInt(2), noise_max), FAbs(d)) /\ IsExactPerturbed(v, m, d))
                => /\ (k = m /\ pc = "window") => i <= 2
                   /\ (k = m /\ pc = "emit") => i = 2
                   /\ pc = "returned" =>
                        /\ result[m + 1] = FAdd(v, FDiv(d, T))
                        /\ result[m + 1] = EndFit(pos, m, 1, T)
                        /\ result[m + 1] # v

C4_Witness ==
    /\ pc = "emit" /\ fn = "foaw" /\ ~best /\ n = 16 /\ noise_max = Half
    /\ sr = FInt(2) /\ k = 3 /\ i = 2 /\ IsExactPerturbed(FInt(1), 3, FInt(-2))
    /\ velocity = FInt(-3)

\* C5: foaw returns result[0] = 0 and result[1] = 0 whatever the arguments.
C5_FirstTwoZero ==
    fn = "foaw" /\ Running => \A kk \in Emitted : kk <= 1 => result[kk + 1] = Zero

C5_Witness ==
    /\ pc = "returned" /\ fn = "foaw" /\ best /\ n = 16 /\ Len(pos) = MaxLen
    /\ pos[1] # pos[2] /\ result[1] = Zero /\ result[2] = Zero /\ result[3] # Zero

\* the subscripts of pos evaluated by the iteration of the window loop that the
\* state is about to run
WindowReads ==
    SlopeReads(best, k, i)
    \cup CheckReads(k, i, FirstOutside(pos, k, i, 1, Slope(best, pos, k, i, T), T, noise_max))

\* C6: every subscript of pos evaluated at step k lies in k-min(n,k)+1 .. k: no
\* window is longer than min(n,k) samples, no subscript is negative (none wraps to
\* the end of pos) and none is beyond k, so result[k] depends on no later sample.
C6_ReadsInWindow ==
    [][FoawWindow => WindowReads \subseteq ((k - Min2(n, k) + 1) .. k)]_vars

C6_Witness ==
    /\ pc = "window" /\ fn = "foaw" /\ best /\ n = 16 /\ k = 3 /\ i = 2
    /\ i \in Range(1, FoawRange(n, k))
    /\ WindowReads = {1, 2, 3}

IsTriangle ==
    /\ fn = "foaw" /\ ~best /\ n = 16 /\ sr = FInt(100)
    /\ noise_max = FDiv(FInt(5), FInt(100))
    /\ Len(pos) >= 7 /\ pos = Triangle(Len(pos))

Rising(kk) == FLt(PyAt(pos, kk - 1), PyAt(pos, kk))

\* pos[kk] is a peak or a valley of the wave
Turn(kk) == kk >= 1 /\ kk + 1 < Len(pos) /\ Rising(kk) # Rising(kk + 1)

\* C7 as claimed: on the triangle wave with sr = 100, n = 16, noise_max = 0.05,
\* result is +100 on the rising steps and -100 on the falling steps, and at a
\* peak the emitted estimate goes through 0.
C7_TriangleResetsToZero ==
    IsTriangle /\ Running =>
        \A kk \in Emitted : kk >= 2 =>
            /\ ~Turn(kk) /\ ~Turn(kk - 1) =>
                  result[kk + 1] = FInt(IF Rising(kk) THEN 100 ELSE -100)
            /\ Turn(kk) /\ ~Rising(kk + 1) /\ kk + 1 \in Emitted =>
                  result[kk + 1] = Zero \/ result[kk + 2] = Zero

\* C7 amended: result[0] = result[1] = 0, and at every step k >= 2 result[k] is
\* +100 if pos[k] > pos[k-1] and -100 otherwise: at the step after a peak (or a
\* valley) window 1 is accepted and window 2 rejected, so the estimate goes from
\* +100 straight to -100 and is never 0.
C7_TriangleTracks ==
    IsTriangle /\ Running =>
        /\ \A kk \in Emitted :
              result[kk + 1] = IF kk < 2 THEN Zero
                               ELSE FInt(IF Rising(kk) THEN 100 ELSE -100)
        /\ (k >= 2 /\ Turn(k - 1) /\ pc = "window") => i <= 2
        /\ (k >= 2 /\ Turn(k - 1) /\ pc = "emit") => i = 2

C7_Witness ==
    /\ IsTriangle /\ pc = "returned" /\ Len(pos) = TriLen
    /\ result[4] = FInt(100) /\ result[5] = FInt(-100) /\ result[7] = FInt(-100)
    /\ result[8] = FInt(100)

\* window ii of step kk passes validation
Passes(kk, ii) ==
    \A j \in 1 .. ii - 1 : ~OutsideAt(pos, kk, j, Slope(best, pos, kk, ii, T), T, noise_max)

\* the windows of step kk that pass together with every smaller window
Accepted(kk) == {ii \in 1 .. Min2(n, kk) - 1 : \A i2 \in 1 .. ii : Passes(kk, i2)}

\* C9: result[k] is the slope of window i*, the largest i in 1..min(n,k)-1 such
\* that windows 1..i all pass validation, and 0 when there is no such window.
C9_LargestAcceptedPrefix ==
    fn = "foaw" /\ pc = "returned" =>
        \A kk \in 0 .. Len(pos) - 1 :
            result[kk + 1] =
                IF Accepted(kk) = {} THEN Zero
                ELSE Slope(best, pos, kk, CHOOSE ii \in Accepted(kk) :
                                               \A i2 \in Accepted(kk) : i2 <= ii, T)

\* a step at which window 2 is rejected and window 3 would pass
C9_Witness ==
    /\ fn = "foaw" /\ pc = "returned" /\ ~best /\ Len(pos) = 5
    /\ Accepted(4) = {1} /\ Passes(4, 3) /\ ~Passes(4, 2)
    /\ result[5] = Slope(best, pos, 4, 1, T)
    /\ result[5] # Slope(best, pos, 4, 3, T)

LevantStepTaken == LevantRK1 \/ LevantRK2 \/ LevantRK4

\* the output the claim names: the dx/dt of the only stage (rk = 1), of the second
\* stage (rk = 2), the (1,2,2,1)/6 combination of the four (rk = 4)
StageOutput ==
    CASE rk = 1 -> F(alpha, Lambda, PyAt(pos, k), u1, x)[2]
      [] rk = 2 -> RK2Stage2(alpha, Lambda, T, PyAt(pos, k), u1, x)[2]
      [] rk = 4 ->
           FMul(FDiv(FInt(1), FInt(6)),
                Weighted(RK4Stage1(alpha, Lambda, T, PyAt(pos, k), u1, x)[2],
                         RK4Stage2(alpha, Lambda, T, PyAt(pos, k), u1, x)[2],
                         RK4Stage3(alpha, Lambda, T, PyAt(pos, k), u1, x)[2],
                         RK4Stage4(alpha, Lambda, T, PyAt(pos, k), u1, x)[2]))

\* C10: the observer starts at x = 0; every step of levant leaves
\* x = x_before + T*result[k], where result[k] is the stage output named above,
\* computed from the state before the step and pos[k] alone.
C10_StateAdvancedByOutput ==
    [][/\ LevantEnter /\ pc' = "loop" => x' = Zero /\ u1' = Zero
       /\ LevantStepTaken =>
            /\ result'[k + 1] = StageOutput
            /\ x' = FAdd(x, FMul(T, result'[k + 1]))]_vars

C10_Witness ==
    /\ fn = "levant" /\ pc = "returned" /\ rk = 4 /\ Len(pos) = MaxLen
    /\ x # Zero /\ ~IsNaN(x) /\ result[MaxLen] # Zero /\ result[MaxLen] # result[MaxLen - 1]

\* the last output is closer to 0 than 1/2
OutputSmall == Len(result) = 1 /\ pc = "loop" /\ FLt(FAbs(result[1]), Half)

\* C8 as claimed: on a constant input the output of levant converges to 0.
C8_ConvergesToZero == <>[]OutputSmall

\* C8 amended: on a constant input pos[k] = c, with C > 0 and rk in {1,2,4}, no
\* NaN arises (when e = x - pos[k] is 0, sign(e) = 0), and when c = 0, where the
\* observer starts, every output is 0.  For c # 0 the output does not converge.
C8_NoNaNZeroAtRest ==
    pc = "loop" =>
        /\ ~IsNaN(x) /\ ~IsNaN(u1) /\ ~IsNaN(result[1])
        /\ pos[1] = Zero => result[1] = Zero /\ x = Zero /\ u1 = Zero

\* a step taken from e = 0 with c # 0: du1/dt = 0 and dx/dt = u1
C8_Witness ==
    /\ pc = "loop" /\ rk = 1 /\ pos[1] # Zero /\ u1 # Zero
    /\ result[1] = u1 /\ x = FAdd(pos[1], FMul(u1, T))
=============================================================================
